---- MODULE Spec2Model ----
(***************************************************************************)
(* Model of get_raw_github_link.py: the GitHubLinkConverter class (one     *)
(* regular expression, one template) and the interactive loop of main().   *)
(*                                                                         *)
(* A Python str is modelled as a sequence of one-character strings, so     *)
(* that strip(), lower(), the regular expression and the template are      *)
(* computed character by character as the code computes them.  Optional    *)
(* results (None | str) are modelled with the one-element sequence None,   *)
(* which is no sequence of characters.                                     *)
(***************************************************************************)
EXTENDS Integers, Sequences, FiniteSets, TLC

VARIABLES
    \* ---- the converter, called directly (specification SpecConv) ----
    url,            \* the argument of is_valid_github_url / convert_to_raw
    ref,            \* the pieces the argument was assembled from
    called,         \* the functions called on url so far
    valid,          \* is_valid_github_url's return value
    sanitized_url,  \* convert_to_raw's local sanitized_url
    groups,         \* convert_to_raw's local groups (match.groupdict())
    raw_url,        \* convert_to_raw's return value
    \* ---- main()'s loop (specification Spec) ----
    pc,             \* the line of main() the process is at
    line,           \* what input() returned for the current iteration
    user_input,     \* main's local user_input
    raw_link,       \* main's local raw_link
    out,            \* what was printed since the current iteration began
    calls,          \* calls of convert_to_raw in the current iteration
    cause,          \* why the loop was left
    status          \* the exit status of the process, once it has ended

convVars == <<url, ref, called, valid, sanitized_url, groups, raw_url>>
mainVars == <<pc, line, user_input, raw_link, out, calls, cause, status>>
vars == <<url, ref, called, valid, sanitized_url, groups, raw_url,
          pc, line, user_input, raw_link, out, calls, cause, status>>

(***************************************************************************)
(* Bounds of the model.                                                    *)
(***************************************************************************)
\* longest <path> segment of an assembled URL
MaxPathLen == 2

(***************************************************************************)
(* Python values.                                                          *)
(***************************************************************************)
None == <<"<None>">>

\* the characters str.strip() removes that occur in the model's alphabet
Whitespace == {" ", "\t", "\n", "\r"}

RECURSIVE LStrip(_)
LStrip(s) ==
    IF s # <<>> /\ Head(s) \in Whitespace THEN LStrip(Tail(s)) ELSE s

RECURSIVE RStrip(_)
RStrip(s) ==
    IF s # <<>> /\ s[Len(s)] \in Whitespace
    THEN RStrip(SubSeq(s, 1, Len(s) - 1))
    ELSE s

\* str.strip()
Strip(s) == RStrip(LStrip(s))

\* str.lower(), one character
LowerChar(c) ==
    CASE c = "A" -> "a" [] c = "B" -> "b" [] c = "C" -> "c" [] c = "D" -> "d"
      [] c = "E" -> "e" [] c = "F" -> "f" [] c = "G" -> "g" [] c = "H" -> "h"
      [] c = "I" -> "i" [] c = "J" -> "j" [] c = "K" -> "k" [] c = "L" -> "l"
      [] c = "M" -> "m" [] c = "N" -> "n" [] c = "O" -> "o" [] c = "P" -> "p"
      [] c = "Q" -> "q" [] c = "R" -> "r" [] c = "S" -> "s" [] c = "T" -> "t"
      [] c = "U" -> "u" [] c = "V" -> "v" [] c = "W" -> "w" [] c = "X" -> "x"
      [] c = "Y" -> "y" [] c = "Z" -> "z" [] OTHER -> c

\* the comparison of line 89 without .lower()
LowerMissing(s) == s

\* str.lower()
Lower(s) == [i \in 1..Len(s) |-> LowerChar(s[i])]

(***************************************************************************)
(* GITHUB_URL_PATTERN:                                                     *)
(*   https?://github\.com/(?P<owner>[^/]+)/(?P<repo>[^/]+)/                *)
(*   (blob|raw)/(?P<branch>[^/]+)/(?P<path>.+)$                            *)
(* A partial match is [pos, g]: the next position to match and the named   *)
(* groups captured so far.  Each element of the pattern maps the set of    *)
(* partial matches to the set of ways of matching one element more.        *)
(***************************************************************************)
NoGroups == [owner |-> <<>>, repo |-> <<>>, branch |-> <<>>, path |-> <<>>]

\* re.Pattern.search in place of match: the match starts anywhere
MatchAnywhere(s) == {[pos |-> p, g |-> NoGroups] : p \in 1..(Len(s) + 1)}

\* re.Pattern.match: the match starts at the first character
MatchStart(s) == {[pos |-> 1, g |-> NoGroups]}

\* a literal
Lit(s, M, lit) ==
    {[m EXCEPT !.pos = m.pos + Len(lit)] :
        m \in {x \in M : /\ x.pos + Len(lit) - 1 <= Len(s)
                         /\ SubSeq(s, x.pos, x.pos + Len(lit) - 1) = lit}}

\* s? : the literal, or nothing
Opt(s, M, lit) == Lit(s, M, lit) \cup M

\* (blob|raw) : one of the literals
Alt(s, M, lits) == UNION {Lit(s, M, lit) : lit \in lits}

\* x* in place of x+ : the run may be empty
RunLengthsStar(s, p, excl) ==
    {n \in 0..(Len(s) - p + 1) : \A i \in p..(p + n - 1) : s[i] # excl}

\* the lengths x+ may take at position p, x being any character but `excl`
RunLengths(s, p, excl) ==
    {n \in 1..(Len(s) - p + 1) : \A i \in p..(p + n - 1) : s[i] # excl}

\* (?P<name>[^c]+), and (?P<name>.+) with c the line feed
Group(s, M, name, excl) ==
    UNION {{[pos |-> m.pos + n,
             g |-> [m.g EXCEPT ![name] = SubSeq(s, m.pos, m.pos + n - 1)]] :
                n \in RunLengths(s, m.pos, excl)} : m \in M}

\* $ : the end of the string, or just before a line feed that ends it
AtEnd(s, p) == p = Len(s) + 1 \/ (p = Len(s) /\ s[p] = "\n")

End(s, M) == {m \in M : AtEnd(s, m.pos)}

SchemeHttp == <<"h", "t", "t", "p">>
SchemeS == <<"s">>
GithubHost == <<":", "/", "/", "g", "i", "t", "h", "u", "b", ".", "c", "o", "m", "/">>
Slash == <<"/">>
Blob == <<"b", "l", "o", "b">>
Raw == <<"r", "a", "w">>

\* all the ways GITHUB_URL_PATTERN matches s
Matches(s) ==
    LET m0 == MatchStart(s)
        m1 == Lit(s, m0, SchemeHttp)
        m2 == Opt(s, m1, SchemeS)
        m3 == Lit(s, m2, GithubHost)
        m4 == Lit(s, Group(s, m3, "owner", "/"), Slash)
        m5 == Lit(s, Group(s, m4, "repo", "/"), Slash)
        m6 == Lit(s, Alt(s, m5, {Blob, Raw}), Slash)
        m7 == Lit(s, Group(s, m6, "branch", "/"), Slash)
        m8 == Group(s, m7, "path", "\n")
    IN  End(s, m8)

\* the match object is truthy
Matched(s) == Matches(s) # {}

\* match.groupdict(): the groups of the match the greedy search finds first
GroupDict(s) ==
    LET F == Matches(s)
    IN  (CHOOSE m \in F : \A n \in F : Len(m.g.path) >= Len(n.g.path)).g

\* RAW_GITHUB_URL_TEMPLATE.format(**groups)
RawHost == <<"h", "t", "t", "p", "s", ":", "/", "/", "r", "a", "w", ".",
             "g", "i", "t", "h", "u", "b", "u", "s", "e", "r",
             "c", "o", "n", "t", "e", "n", "t", ".", "c", "o", "m", "/">>

\* the template with {repo} and {owner} exchanged
FormatSwapped(g) ==
    RawHost \o g.repo \o Slash \o g.owner \o Slash \o g.branch \o Slash \o g.path

Format(g) == RawHost \o g.owner \o Slash \o g.repo \o Slash \o g.branch \o Slash \o g.path

(***************************************************************************)
(* GitHubLinkConverter                                                     *)
(***************************************************************************)
\* a validator that looks at the scheme and the host only
IsValidHostOnly(u) ==
    Lit(u, Opt(u, Lit(u, MatchStart(u), SchemeHttp), SchemeS), GithubHost) # {}

is_valid_github_url(u) == Matched(u)

\* url.lstrip() in place of url.strip()
SanitizeLeftOnly(u) == LStrip(u)

sanitize_url(u) == Strip(u)

\* convert_to_raw's locals and result, as a record
ConvertRun(u) ==
    LET s == sanitize_url(u)
    IN  IF ~Matched(s)
        THEN [sanitized_url |-> s, groups |-> NoGroups, raw_url |-> None]
        ELSE [sanitized_url |-> s, groups |-> GroupDict(s),
              raw_url |-> Format(GroupDict(s))]

convert_to_raw(u) == ConvertRun(u).raw_url

(***************************************************************************)
(* The arguments the converter is called with: URLs assembled from a lead, *)
(* a scheme, a host and the five segments, each drawn from a small set     *)
(* that holds well-formed and malformed choices, and the proper prefixes   *)
(* of one well-formed URL (the empty string, missing segments).            *)
(***************************************************************************)
Leads == {<<>>, <<" ">>, <<"x">>}
Schemes == {SchemeHttp, SchemeHttp \o SchemeS, <<"f", "t", "p">>}
Hosts == {<<"g", "i", "t", "h", "u", "b", ".", "c", "o", "m">>,
          <<"g", "i", "t", "l", "a", "b", ".", "c", "o", "m">>,
          <<"g", "i", "t", "h", "u", "b", "x", "c", "o", "m">>}
Owners == {<<>>, <<"o">>}
Repos == {<<>>, <<"r">>}
Kinds == {Blob, Raw, <<"t", "r", "e", "e">>}
Branches == {<<>>, <<"m">>, <<"\n">>}
PathChars == {"f", "/", " ", "\n"}
Paths == UNION {[1..n -> PathChars] : n \in 0..MaxPathLen}

Refs ==
    [tag : {"url"}, lead : Leads, scheme : Schemes, host : Hosts, owner : Owners,
     repo : Repos, kind : Kinds, branch : Branches, path : Paths]

Assemble(r) ==
    r.lead \o r.scheme \o <<":", "/", "/">> \o r.host \o Slash \o r.owner \o Slash
        \o r.repo \o Slash \o r.kind \o Slash \o r.branch \o Slash \o r.path

NoRef ==
    [tag |-> "text", lead |-> <<>>, scheme |-> <<>>, host |-> <<>>, owner |-> <<>>,
     repo |-> <<>>, kind |-> <<>>, branch |-> <<>>, path |-> <<>>]

WellFormed ==
    Assemble([tag |-> "url", lead |-> <<>>, scheme |-> SchemeHttp \o SchemeS,
              host |-> <<"g", "i", "t", "h", "u", "b", ".", "c", "o", "m">>,
              owner |-> <<"o">>, repo |-> <<"r">>, kind |-> Blob,
              branch |-> <<"m">>, path |-> <<"f">>])

Truncated == {SubSeq(WellFormed, 1, n) : n \in 0..(Len(WellFormed) - 1)}

MainIdle ==
    /\ pc = "idle"
    /\ line = <<>>
    /\ user_input = <<>>
    /\ raw_link = None
    /\ out = <<>>
    /\ calls = 0
    /\ cause = "none"
    /\ status = -1

InitConv ==
    /\ \/ /\ ref \in Refs
          /\ url = Assemble(ref)
       \/ /\ ref = NoRef
          /\ url \in Truncated
    /\ called = {}
    /\ valid = FALSE
    /\ sanitized_url = <<>>
    /\ groups = NoGroups
    /\ raw_url = None
    /\ MainIdle

\* a call of GitHubLinkConverter.is_valid_github_url(url)
CallIsValid ==
    /\ "is_valid_github_url" \notin called
    /\ called' = called \cup {"is_valid_github_url"}
    /\ valid' = is_valid_github_url(url)
    /\ UNCHANGED <<url, ref, sanitized_url, groups, raw_url>>
    /\ UNCHANGED mainVars

\* a call of GitHubLinkConverter.convert_to_raw(url)
CallConvert ==
    /\ "convert_to_raw" \notin called
    /\ called' = called \cup {"convert_to_raw"}
    /\ LET run == ConvertRun(url)
       IN  /\ sanitized_url' = run.sanitized_url
           /\ groups' = run.groups
           /\ raw_url' = run.raw_url
    /\ UNCHANGED <<url, ref, valid>>
    /\ UNCHANGED mainVars

NextConv == CallIsValid \/ CallConvert

SpecConv == InitConv /\ [][NextConv]_vars

(***************************************************************************)
(* main(): the loop of lines 85-111.  pc is the statement the process is   *)
(* at: "input" (line 87, waiting in input()), "check" (lines 89-93, the    *)
(* line was read and stripped), "report" (line 99, convert_to_raw has      *)
(* returned), "except_interrupt" (line 108), "except_exception" (line      *)
(* 111); and, once the process has ended, "returned" (break, main returns),*)
(* "exited" (sys.exit(0)) or "killed" (a KeyboardInterrupt nothing caught).*)
(* out holds what print() wrote since input() last returned or raised; the *)
(* prompt input() writes is not part of it.  stdout is taken to accept     *)
(* every write, so input() is the only call of the try block that raises   *)
(* an Exception.  The banner of lines 80-83 precedes the loop and is left  *)
(* out: Init is the state in which line 85 is reached.                     *)
(***************************************************************************)
Goodbye == [text |-> "Goodbye!", arg |-> <<>>]
PleaseEnter == [text |-> "Please enter a valid URL.\n", arg |-> <<>>]
RawLinkMsg(u) == [text |-> "\nRaw GitHub Link:\n{raw_link}\n", arg |-> u]
InvalidMsg ==
    [text |-> "Error: Invalid GitHub URL format. Please use a GitHub browser link.\n",
     arg |-> <<>>]
InterruptGoodbye == [text |-> "\n\nGoodbye!", arg |-> <<>>]
ErrorOccurred == [text |-> "An error occurred: {e}\n", arg |-> <<>>]

\* ('quit', 'exit', 'q')
ExitKeywords == {<<"q", "u", "i", "t">>, <<"e", "x", "i", "t">>, <<"q">>}

\* `if raw_link != "":` in place of `if raw_link:`
TruthyNotEmpty(x) == x # <<>>

\* `if raw_link:` : neither None nor the empty string
Truthy(x) == x # None /\ x # <<>>

\* the lines input() may return: a line holds no line feed
Pads == {<<>>, <<" ">>, <<"\t", " ">>}
Words == ExitKeywords \cup
    {<<"Q", "U", "I", "T">>, <<"Q", "u", "i", "t">>, <<"E", "x", "i", "T">>, <<"Q">>,
     <<"q", "u">>, <<"q", "u", "i", "t", "s">>, <<"q", " ", "q">>, <<"e", "x", "i", "t", "!">>}
WordLines == {l \o w \o r : l \in Pads, w \in Words, r \in Pads}
BlankLines == {<<>>, <<" ">>, <<"\t", " ">>, <<" ", " ", "\t">>}
LineRefs ==
    {r \in Refs : /\ r.lead \in {<<>>, <<" ">>}
                  /\ r.scheme = SchemeHttp \o SchemeS
                  /\ r.host # <<"g", "i", "t", "h", "u", "b", "x", "c", "o", "m">>
                  /\ r.owner = <<"o">> /\ r.repo = <<"r">> /\ r.branch = <<"m">>}
UrlLines == {Assemble(r) : r \in LineRefs} \cup Truncated
Lines ==
    {l \in UrlLines \cup WordLines \cup BlankLines : \A i \in 1..Len(l) : l[i] # "\n"}

TryBlock == {"input", "check", "report"}
Handlers == {"except_interrupt", "except_exception"}
Ended == {"returned", "exited", "killed"}

ConvIdle ==
    /\ url = <<>>
    /\ ref = NoRef
    /\ called = {}
    /\ valid = FALSE
    /\ sanitized_url = <<>>
    /\ groups = NoGroups
    /\ raw_url = None

Init ==
    /\ pc = "input"
    /\ line = None
    /\ user_input = <<>>
    /\ raw_link = None
    /\ out = <<>>
    /\ calls = 0
    /\ cause = "none"
    /\ status = -1
    /\ ConvIdle

\* line 87 without .strip()
ReadLineNoStrip ==
    /\ pc = "input"
    /\ \E l \in Lines :
        /\ line' = l
        /\ user_input' = l
    /\ out' = <<>>
    /\ calls' = 0
    /\ pc' = "check"
    /\ UNCHANGED <<raw_link, cause, status>>
    /\ UNCHANGED convVars

\* line 87: input() returns a line, which is stripped
ReadLine ==
    /\ pc = "input"
    /\ \E l \in Lines :
        /\ line' = l
        /\ user_input' = Strip(l)
    /\ out' = <<>>
    /\ calls' = 0
    /\ pc' = "check"
    /\ UNCHANGED <<raw_link, cause, status>>
    /\ UNCHANGED convVars

\* line 87: input() raises an Exception (EOFError at the end of stdin)
ReadFails ==
    /\ pc = "input"
    /\ line' = None
    /\ out' = <<>>
    /\ calls' = 0
    /\ pc' = "except_exception"
    /\ UNCHANGED <<user_input, raw_link, cause, status>>
    /\ UNCHANGED convVars

\* lines 89-91: an exit keyword; break leaves the loop, main returns
ExitKeyword ==
    /\ pc = "check"
    /\ Lower(user_input) \in ExitKeywords
    /\ out' = Append(out, Goodbye)
    /\ pc' = "returned"
    /\ cause' = "keyword"
    /\ status' = 0
    /\ UNCHANGED <<line, user_input, raw_link, calls>>
    /\ UNCHANGED convVars

\* lines 93-95: an empty line; continue
EmptyLine ==
    /\ pc = "check"
    /\ Lower(user_input) \notin ExitKeywords
    /\ user_input = <<>>
    /\ out' = Append(out, PleaseEnter)
    /\ pc' = "input"
    /\ UNCHANGED <<line, user_input, raw_link, calls, cause, status>>
    /\ UNCHANGED convVars

\* line 97: raw_link = GitHubLinkConverter.convert_to_raw(user_input)
CallConverter ==
    /\ pc = "check"
    /\ Lower(user_input) \notin ExitKeywords
    /\ user_input # <<>>
    /\ raw_link' = convert_to_raw(user_input)
    /\ calls' = calls + 1
    /\ pc' = "report"
    /\ UNCHANGED <<line, user_input, out, cause, status>>
    /\ UNCHANGED convVars

\* lines 99-100: the raw link is printed
PrintLink ==
    /\ pc = "report"
    /\ Truthy(raw_link)
    /\ out' = Append(out, RawLinkMsg(raw_link))
    /\ pc' = "input"
    /\ UNCHANGED <<line, user_input, raw_link, calls, cause, status>>
    /\ UNCHANGED convVars

\* lines 101-105: the invalid-URL diagnostic is printed
PrintInvalid ==
    /\ pc = "report"
    /\ ~Truthy(raw_link)
    /\ out' = Append(out, InvalidMsg)
    /\ pc' = "input"
    /\ UNCHANGED <<line, user_input, raw_link, calls, cause, status>>
    /\ UNCHANGED convVars

\* Ctrl-C while the try block of lines 86-105 runs: KeyboardInterrupt is
\* raised there and line 107 catches it
Interrupt ==
    /\ pc \in TryBlock
    /\ pc' = "except_interrupt"
    /\ cause' = "interrupt"
    /\ UNCHANGED <<line, user_input, raw_link, out, calls, status>>
    /\ UNCHANGED convVars

\* lines 108-109: print("\n\nGoodbye!"); sys.exit(0)
HandleInterrupt ==
    /\ pc = "except_interrupt"
    /\ out' = Append(out, InterruptGoodbye)
    /\ pc' = "exited"
    /\ status' = 0
    /\ UNCHANGED <<line, user_input, raw_link, calls, cause>>
    /\ UNCHANGED convVars

\* line 111 with the exception raised again after the message
HandleExceptionReraises ==
    /\ pc = "except_exception"
    /\ out' = Append(out, ErrorOccurred)
    /\ pc' = "killed"
    /\ status' = 1
    /\ UNCHANGED <<line, user_input, raw_link, calls, cause>>
    /\ UNCHANGED convVars

\* line 111: the failure is printed and the loop goes on
HandleException ==
    /\ pc = "except_exception"
    /\ out' = Append(out, ErrorOccurred)
    /\ pc' = "input"
    /\ UNCHANGED <<line, user_input, raw_link, calls, cause, status>>
    /\ UNCHANGED convVars

\* Ctrl-C while an except clause runs (lines 108-109, line 111): the
\* KeyboardInterrupt is raised outside the try block, no clause of the
\* try statement catches it, and it leaves main(): the interpreter prints the
\* traceback and ends the process with SIGINT, exit status 130
InterruptInHandler ==
    /\ pc \in Handlers
    /\ pc' = "killed"
    /\ cause' = "interrupt"
    /\ status' = 130
    /\ UNCHANGED <<line, user_input, raw_link, out, calls>>
    /\ UNCHANGED convVars

Next ==
    \/ ReadLine
    \/ ReadFails
    \/ ExitKeyword
    \/ EmptyLine
    \/ CallConverter
    \/ PrintLink
    \/ PrintInvalid
    \/ Interrupt
    \/ HandleInterrupt
    \/ HandleException
    \/ InterruptInHandler

Spec == Init /\ [][Next]_vars

(***************************************************************************)
(* The claims about the converter, checked under SpecConv.                 *)
(***************************************************************************)
Https == SchemeHttp \o SchemeS
GithubCom == <<"g", "i", "t", "h", "u", "b", ".", "c", "o", "m">>
Converted == "convert_to_raw" \in called
HasNoSlash(s) == \A i \in 1..Len(s) : s[i] # "/"
HasNoLineFeed(s) == \A i \in 1..Len(s) : s[i] # "\n"

\* r is "https://github.com/{owner}/{repo}/{blob|raw}/{branch}/{path}" for
\* non-empty fields, owner, repo and branch without a slash
ValidTuple(r) ==
    /\ r.tag = "url"
    /\ r.lead = <<>> /\ r.scheme = Https /\ r.host = GithubCom
    /\ r.kind \in {Blob, Raw}
    /\ r.owner # <<>> /\ HasNoSlash(r.owner)
    /\ r.repo # <<>> /\ HasNoSlash(r.repo)
    /\ r.branch # <<>> /\ HasNoSlash(r.branch)
    /\ r.path # <<>>

\* "https://raw.githubusercontent.com/{owner}/{repo}/{branch}/{path}"
ExpectedRaw(r) ==
    <<"h", "t", "t", "p", "s", ":", "/", "/", "r", "a", "w", ".", "g", "i", "t",
      "h", "u", "b", "u", "s", "e", "r", "c", "o", "n", "t", "e", "n", "t", ".",
      "c", "o", "m">>
        \o <<"/">> \o r.owner \o <<"/">> \o r.repo \o <<"/">> \o r.branch
        \o <<"/">> \o r.path

\* C1 as stated: for every tuple of non-empty fields (owner, repo, branch
\* without a slash), converting the blob or raw URL of the tuple gives the
\* raw.githubusercontent.com URL of the same four fields, character by
\* character.
C1_EveryTuple ==
    (Converted /\ ValidTuple(ref)) => raw_url = ExpectedRaw(ref)

\* C1 amended: the same, for the tuples whose path holds no line feed and
\* does not end in a whitespace character.
C1_TupleConverted ==
    (/\ Converted
     /\ ValidTuple(ref)
     /\ HasNoLineFeed(ref.path)
     /\ ref.path[Len(ref.path)] \notin Whitespace)
        => raw_url = ExpectedRaw(ref)

C1_Witness ==
    /\ Converted
    /\ ValidTuple(ref)
    /\ ref.kind = Raw
    /\ ref.branch = <<"\n">>
    /\ ref.path = <<" ", "f">>
    /\ raw_url = ExpectedRaw(ref)

\* s is (http|https)://github.com/<owner>/<repo>/<blob|raw>/<branch>/<path>
\* from its first character to its last: owner, repo and branch non-empty
\* runs without a slash, path the non-empty remainder
FitsShape(s) ==
    \E scheme \in {SchemeHttp, Https} :
        LET pre == scheme \o <<":", "/", "/">> \o GithubCom \o <<"/">>
            n == Len(s) - Len(pre)
            rest == SubSeq(s, Len(pre) + 1, Len(s))
            NoSlash(i, j) == \A k \in i..j : rest[k] # "/"
        IN  /\ n > 0
            /\ SubSeq(s, 1, Len(pre)) = pre
            /\ \E a \in 2..n :
                /\ rest[a] = "/"
                /\ NoSlash(1, a - 1)
                /\ \E b \in (a + 2)..n :
                    /\ rest[b] = "/"
                    /\ NoSlash(a + 1, b - 1)
                    /\ \E kind \in {Blob, Raw} :
                        LET c == b + Len(kind) + 1
                        IN  /\ c <= n
                            /\ SubSeq(rest, b + 1, c - 1) = kind
                            /\ rest[c] = "/"
                            /\ \E d \in (c + 2)..(n - 1) :
                                /\ rest[d] = "/"
                                /\ NoSlash(c + 1, d - 1)

\* C2: convert_to_raw returns None for every input whose trimmed form does
\* not fit the shape from its first character to its last.
C2_NoneOutsideShape ==
    (Converted /\ ~FitsShape(Strip(url))) => raw_url = None

\* an input with a character before the scheme, well-formed after it
C2_Witness ==
    /\ Converted
    /\ ref.tag = "url"
    /\ ref.lead = <<"x">>
    /\ ValidTuple([ref EXCEPT !.lead = <<>>])
    /\ raw_url = None

Surround == {<<" ">>, <<" ", " ">>, <<"\n">>, <<"\t", " ">>}

\* C3: a URL of the accepted shape converts to the same result with
\* whitespace before and after it.
C3_WhitespaceInsensitive ==
    (Converted /\ FitsShape(url)) =>
        \A l \in Surround : \A r \in Surround :
            convert_to_raw(l \o url \o r) = raw_url

C3_Witness ==
    /\ Converted
    /\ FitsShape(url)
    /\ raw_url # None
    /\ convert_to_raw(<<" ", " ">> \o url \o <<" ", " ">>) = raw_url

HasEmptyField(r) ==
    r.owner = <<>> \/ r.repo = <<>> \/ r.branch = <<>> \/ r.path = <<>>

\* C4: when convert_to_raw returns a URL, the four fields it substituted are
\* non-empty; a URL assembled with an empty owner, repository, branch or
\* path converts to None.
C4_FieldsNonEmpty ==
    Converted =>
        /\ raw_url # None =>
            /\ groups.owner # <<>>
            /\ groups.repo # <<>>
            /\ groups.branch # <<>>
            /\ groups.path # <<>>
        /\ (ref.tag = "url" /\ HasEmptyField(ref)) => raw_url = None

C4_Witness ==
    /\ Converted
    /\ raw_url # None
    /\ Len(groups.owner) = 1
    /\ Len(groups.path) = 1

BothCalled == called = {"is_valid_github_url", "convert_to_raw"}

\* C10 as stated: on every input string, is_valid_github_url is true
\* exactly when convert_to_raw returns a URL.
C10_AgreeEverywhere ==
    BothCalled => (valid <=> raw_url # None)

\* C10 amended: the validator and the converter agree on every input that
\* has no leading and no trailing whitespace.
C10_AgreeOnTrimmed ==
    (BothCalled /\ (url = <<>> \/ (url[1] \notin Whitespace /\ url[Len(url)] \notin Whitespace)))
        => (valid <=> raw_url # None)

C10_Witness ==
    /\ BothCalled
    /\ url # <<>>
    /\ url[1] \notin Whitespace
    /\ url[Len(url)] \notin Whitespace
    /\ valid
    /\ raw_url # None

(***************************************************************************)
(* The claims about main()'s loop, checked under Spec.                     *)
(***************************************************************************)
\* l, trimmed and case-folded, is quit, exit or q
IsExitLine(l) ==
    LET s == Strip(l)
    IN  \E w \in {<<"q", "u", "i", "t">>, <<"e", "x", "i", "t">>, <<"q">>} :
            /\ Len(s) = Len(w)
            /\ \A i \in 1..Len(w) : LowerChar(s[i]) = w[i]

IsBlankLine(l) == \A i \in 1..Len(l) : l[i] \in Whitespace

Printed(m) == \E i \in 1..Len(out) : out[i] = m

PrintedLink == \E i \in 1..Len(out) : out[i].text = RawLinkMsg(<<>>).text

\* C5: the loop is left only by an exit keyword or a user interrupt; after
\* an empty line, a printed link, a printed diagnostic or a caught failure
\* of input() the shell is prompting again.
C5_OnlyIntentEnds ==
    [][/\ (pc \notin Ended /\ pc' \in Ended) =>
            \/ pc = "check" /\ line # None /\ IsExitLine(line) /\ pc' = "returned"
            \/ cause' = "interrupt"
       /\ (pc \in {"report", "except_exception"} /\ pc' # pc /\ cause' # "interrupt")
            => pc' = "input"
       /\ (pc = "check" /\ line # None /\ IsBlankLine(line) /\ cause' # "interrupt")
            => pc' = "input"]_vars

\* input() failed, the failure was printed and the shell prompts again
C5_Witness ==
    /\ pc = "input"
    /\ line = None
    /\ out = <<ErrorOccurred>>
    /\ cause = "none"

\* C6: a line that is an exit keyword once trimmed and case-folded never
\* reaches the converter and prints no link and no diagnostic; unless a
\* user interrupt cuts the iteration short, the loop ends by returning
\* from main, with "Goodbye!" printed and exit status 0.
C6_ExitKeyword ==
    (line # None /\ IsExitLine(line)) =>
        /\ calls = 0
        /\ ~PrintedLink /\ ~Printed(InvalidMsg) /\ ~Printed(PleaseEnter)
        /\ pc \notin {"input", "report"}
        /\ cause # "interrupt" => pc \in {"check", "returned"}
        /\ pc = "returned" => (out = <<Goodbye>> /\ status = 0 /\ cause = "keyword")

C6_Witness ==
    /\ pc = "returned"
    /\ line = <<" ", "Q", "U", "I", "T", "\t", " ">>
    /\ out = <<Goodbye>>
    /\ status = 0

\* C7: a line that is neither blank nor an exit keyword gets exactly one
\* response: the raw link convert_to_raw returns for it, or, when
\* convert_to_raw returns None, the invalid-URL diagnostic; the converter
\* is called once.
C7_OneResponse ==
    (line # None /\ ~IsBlankLine(line) /\ ~IsExitLine(line)) =>
        /\ pc \in {"check", "report"} => out = <<>>
        /\ pc = "input" =>
            /\ calls = 1
            /\ out = <<IF convert_to_raw(line) # None
                       THEN RawLinkMsg(convert_to_raw(line))
                       ELSE InvalidMsg>>

C7_Witness ==
    /\ pc = "input"
    /\ line # None
    /\ line # Strip(line)
    /\ calls = 1
    /\ out = <<RawLinkMsg(convert_to_raw(line))>>
    /\ convert_to_raw(line) # None

\* C8: a line that is empty once trimmed prints "Please enter a valid
\* URL.", never reaches the converter and never ends the loop by itself;
\* unless a user interrupt cuts the iteration short, the shell prompts
\* again.
C8_EmptyLine ==
    (line # None /\ IsBlankLine(line)) =>
        /\ calls = 0
        /\ pc \notin {"report", "returned"}
        /\ cause # "interrupt" => pc \in {"check", "input"}
        /\ pc = "check" => out = <<>>
        /\ pc = "input" => out = <<PleaseEnter>>

C8_Witness ==
    /\ pc = "input"
    /\ line = <<"\t", " ">>
    /\ out = <<PleaseEnter>>
    /\ calls = 0
    /\ status = -1

\* C9 as stated: a user interrupt at any point of a loop iteration ends
\* the process with the farewell printed and exit status 0.
C9_InterruptExitsCleanly ==
    (cause = "interrupt" /\ pc \in Ended) =>
        /\ pc = "exited"
        /\ status = 0
        /\ Printed(InterruptGoodbye)

====
